---- MODULE Spec2Model ----
(***************************************************************************)
(* Model of the 104 job-search facade:                                     *)
(*   src/integrated_solution.py  the integrated application                *)
(*   src/main.py                 the proxying application                  *)
(*                                                                         *)
(* Python values are tagged records, so that a field of the wrong shape    *)
(* (None where a dict is expected, ...) is a value the model can hold and  *)
(* an attribute access on it raises, as it does in Python:                 *)
(*   [t |-> "null"]            None / JSON null                            *)
(*   [t |-> "str",  s |-> ..]  a string                                    *)
(*   [t |-> "obj",  f |-> ..]  a dict; f is a record of its keys           *)
(*   [t |-> "list", q |-> ..]  a list                                      *)
(***************************************************************************)
EXTENDS Integers, Sequences, FiniteSets, TLC

VARIABLES
    \* ---- one /search_104 request (integrated_solution.py) ----
    pc,             \* position of the request in search_104_jobs_core
    end_page,       \* the end_page query parameter
    current_page,   \* loop variable of the page loop
    jobs_in_page,   \* the listings of the page being processed
    job_idx,        \* position of the listing loop in jobs_in_page
    final_result,   \* the accumulated JobResult objects
    aborted,        \* "none", or why the except clause of line 125 ran
    response,       \* the body /search_104 answers with
    trace,          \* history: the outbound requests and the sleeps, in order
    prev_complete,  \* history: the body of the last failure-free request
    \* ---- the uploads directory and the /document requests ----
    fs,             \* file name under uploads/ -> inode, 0 when absent
    inode_data,     \* inode -> its bytes
    next_inode,     \* next unused inode
    doc,            \* request -> its state
    \* ---- the keyword matcher applied to one text ----
    m_query, m_content, m_result,
    \* ---- one request to the proxying application (main.py) ----
    px_log          \* the answers of the requests served so far

vars == <<pc, end_page, current_page, jobs_in_page, job_idx, final_result,
          aborted, response, trace, prev_complete,
          fs, inode_data, next_inode, doc,
          m_query, m_content, m_result, px_log>>

searchVars == <<pc, end_page, current_page, jobs_in_page, job_idx,
                final_result, aborted, response, trace, prev_complete>>
docVars == <<fs, inode_data, next_inode, doc>>
matchVars == <<m_query, m_content, m_result>>
proxyVars == <<px_log>>

MaxEndPage == 3

(***************************************************************************)
(* Python values                                                           *)
(***************************************************************************)
PyNone == [t |-> "null"]
PyStr(s) == [t |-> "str", s |-> s]
PyObj(f) == [t |-> "obj", f |-> f]
PyList(q) == [t |-> "list", q |-> q]

IsDict(v) == v.t = "obj"
HasKey(d, k) == k \in DOMAIN d.f

\* the outcome of an expression: a value, or an exception
Value(v) == [raised |-> FALSE, v |-> v]
Raise == [raised |-> TRUE, v |-> PyNone]

\* d.get(k, default): AttributeError unless d is a dict
PyGet(d, k, default) ==
    IF ~IsDict(d) THEN Raise
    ELSE IF HasKey(d, k) THEN Value(d.f[k]) ELSE Value(default)

\* d.get(k1, {}).get(k2, default)
PyGet2(d, k1, k2, default) ==
    IF ~IsDict(d) THEN Raise
    ELSE IF ~HasKey(d, k1) THEN Value(default)
    ELSE PyGet(d.f[k1], k2, default)

\* d.get(k1, {}).get(k2, {}).get(k3, default)
PyGet3(d, k1, k2, k3, default) ==
    IF ~IsDict(d) THEN Raise
    ELSE IF ~HasKey(d, k1) THEN Value(default)
    ELSE PyGet2(d.f[k1], k2, k3, default)

(***************************************************************************)
(* The upstream job board: the bodies its two endpoints may answer with.   *)
(* Each request is answered by a transport error, a non-2xx status, a body *)
(* that is not JSON, or one of these bodies.                               *)
(***************************************************************************)
Listing(name, cust, link) ==
    PyObj([jobName |-> PyStr(name), custName |-> PyStr(cust),
           link |-> PyObj([job |-> PyStr(link)])])

ListingA == Listing("Engineer", "Acme", "//www.104.com.tw/job/a1?jobsource=s")
ListingB == Listing("Analyst", "Beta", "https://www.104.com.tw/job/b2")
\* a listing object without jobName, custName and link
ListingBare == PyObj([jobNo |-> PyStr("77")])
\* "jobName": null
ListingNullName ==
    PyObj([jobName |-> PyNone, custName |-> PyStr("Acme"),
           link |-> PyObj([job |-> PyStr("//www.104.com.tw/job/c3")])])
\* "link": null
ListingNullLink ==
    PyObj([jobName |-> PyStr("Clerk"), custName |-> PyStr("Acme"), link |-> PyNone])
\* "link": {"job": null}
ListingNullJob ==
    PyObj([jobName |-> PyStr("Clerk"), custName |-> PyStr("Acme"),
           link |-> PyObj([job |-> PyNone])])

PageBody(list) == PyObj([status |-> PyStr("200"), data |-> PyObj([list |-> list])])

PageBodies ==
    << PageBody(PyList(<<ListingA, ListingB>>)),
       PageBody(PyList(<<ListingB>>)),
       PageBody(PyList(<<>>)),
       PyObj([status |-> PyStr("200")]),                        \* no "data"
       PyObj([status |-> PyStr("200"), data |-> PyNone]),       \* "data": null
       PageBody(PyNone),                                        \* "list": null
       PageBody(PyList(<<ListingBare>>)),
       PageBody(PyList(<<ListingNullName>>)),
       PageBody(PyList(<<ListingA, ListingNullLink, ListingB>>)),
       PageBody(PyList(<<ListingNullJob>>)) >>

DetailBody(detail) == PyObj([status |-> PyStr("200"), data |-> PyObj([jobDetail |-> detail])])

DetailBodies ==
    << DetailBody(PyObj([jobDescription |-> PyStr("Build things")])),
       DetailBody(PyObj([jobName |-> PyStr("x")])),             \* no jobDescription
       PyObj([status |-> PyStr("200"), data |-> PyNone]) >>     \* "data": null

\* what requests.get / raise_for_status / response.json make of an answer:
\* an exception, or the parsed body
RequestFailures ==
    {[kind |-> k, body |-> 0] : k \in {"transport", "status", "unparsable"}}
PageOutcomes ==
    RequestFailures \cup {[kind |-> "json", body |-> i] : i \in 1 .. Len(PageBodies)}
DetailOutcomes ==
    RequestFailures \cup {[kind |-> "json", body |-> i] : i \in 1 .. Len(DetailBodies)}

(***************************************************************************)
(* get_job_details                                                         *)
(***************************************************************************)
\* the value get_job_details returns, or the exception it lets through:
\* job_url.startswith is outside the try block
\* (raised), with whether the request went out (sent)
DetailError == [raised |-> FALSE, sent |-> TRUE, error |-> TRUE, description |-> PyNone]
DetailRaise(sent) == [raised |-> TRUE, sent |-> sent, error |-> TRUE, description |-> PyNone]

get_job_details_Propagates(job_url, outcome) ==
    IF job_url.t # "str" THEN DetailRaise(FALSE)
    ELSE IF outcome \in RequestFailures THEN DetailRaise(TRUE)
    ELSE LET d == PyGet3(DetailBodies[outcome.body], "data", "jobDetail",
                         "jobDescription", PyStr(""))
         IN  IF d.raised THEN DetailError
             ELSE [raised |-> FALSE, sent |-> TRUE, error |-> FALSE, description |-> d.v]

get_job_details(job_url, outcome) ==
    IF job_url.t # "str" THEN DetailRaise(FALSE)
    ELSE IF outcome \in RequestFailures THEN DetailError
    ELSE LET d == PyGet3(DetailBodies[outcome.body], "data", "jobDetail",
                         "jobDescription", PyStr(""))
         IN  IF d.raised THEN DetailError
             ELSE [raised |-> FALSE, sent |-> TRUE, error |-> FALSE, description |-> d.v]

(***************************************************************************)
(* search_104_jobs_core, one step per outbound request or sleep            *)
(***************************************************************************)
\* class JobResult
JobResult(title, company, link) ==
    [title |-> title, company |-> company, link |-> link, description |-> PyStr("")]

PageRange_OneMore(ep) == 1 .. (ep + 1)

\* range(1, end_page + 1)
PageRange(ep) == 1 .. ep

\* if current_page < end_page: time.sleep(1)
SleepDue(cp, ep) == cp < ep

Accumulate_Dedup(result, job_result) ==
    IF \E i \in 1 .. Len(result) : result[i].link = job_result.link
    THEN result ELSE Append(result, job_result)

\* final_result.append(job_result)
Accumulate(result, job_result) == Append(result, job_result)

\* data.get("data", {}).get("list", []), as the for statement iterates it
JobsInPage(data) ==
    LET l == PyGet2(data, "data", "list", PyList(<<>>))
    IN  IF l.raised THEN Raise
        ELSE IF l.v.t # "list" THEN Raise      \* for job in None: TypeError
        ELSE Value(l.v.q)

\* if details and "error" not in details: description = details.get("description", "")
WithDetails(job_result, details) ==
    IF details.error THEN job_result
    ELSE [job_result EXCEPT !.description = details.description]

SearchEvent(page, outcome) ==
    [op |-> "search", page |-> page, ok |-> outcome \notin RequestFailures,
     body |-> outcome.body]
DetailEvent(page, outcome) ==
    [op |-> "detail", page |-> page, ok |-> outcome \notin RequestFailures, body |-> 0]
SleepEvent(page) == [op |-> "sleep", page |-> page, ok |-> TRUE, body |-> 0]

NoResponse == [results |-> <<>>]

\* the except clause of line 125: log and fall through to the return
Abort(why) ==
    /\ aborted' = why
    /\ pc' = "return"
    /\ UNCHANGED <<end_page, current_page, jobs_in_page, job_idx, final_result>>

\* the for statement takes the next page, or the loop ends
NextPage ==
    IF current_page + 1 \in PageRange(end_page)
    THEN /\ current_page' = current_page + 1
         /\ pc' = "request"
    ELSE /\ pc' = "return"
         /\ UNCHANGED current_page

\* the listings of the page are done
EndOfPage ==
    IF SleepDue(current_page, end_page)
    THEN /\ pc' = "sleep"
         /\ UNCHANGED current_page
    ELSE NextPage

\* GET /search_104?end_page=ep: the handler calls search_104_jobs_core
StartSearch ==
    /\ pc = "idle"
    /\ \E ep \in 1 .. MaxEndPage : end_page' = ep
    /\ current_page' = 1
    /\ pc' = "request"
    /\ final_result' = <<>>
    /\ UNCHANGED <<jobs_in_page, job_idx, aborted, response, trace, prev_complete>>
    /\ UNCHANGED <<docVars, matchVars, proxyVars>>

\* a request that leaves end_page at its default, Query(1, ...)
StartDefaultSearch ==
    /\ pc = "idle"
    /\ end_page' = 1
    /\ current_page' = 1
    /\ pc' = "request"
    /\ final_result' = <<>>
    /\ UNCHANGED <<jobs_in_page, job_idx, aborted, response, trace, prev_complete>>
    /\ UNCHANGED <<docVars, matchVars, proxyVars>>

\* requests.get(base_url, page=current_page); raise_for_status; json; data.list
SearchPageRequest ==
    /\ pc = "request"
    /\ \E o \in PageOutcomes :
        /\ trace' = Append(trace, SearchEvent(current_page, o))
        /\ IF o \in RequestFailures
           THEN Abort("request") /\ UNCHANGED <<response, prev_complete>>
           ELSE LET jobs == JobsInPage(PageBodies[o.body])
                IN  IF jobs.raised
                    THEN Abort("malformed") /\ UNCHANGED <<response, prev_complete>>
                    ELSE /\ jobs_in_page' = jobs.v
                         /\ job_idx' = 1
                         /\ IF jobs.v = <<>> THEN EndOfPage
                            ELSE pc' = "listing" /\ UNCHANGED current_page
                         /\ UNCHANGED <<end_page, final_result, aborted,
                                        response, prev_complete>>
    /\ UNCHANGED <<docVars, matchVars, proxyVars>>

\* the body of the listing loop, lines 103-119
ProcessListing ==
    /\ pc = "listing"
    /\ \E o \in DetailOutcomes :
        LET job == jobs_in_page[job_idx]
            job_name == PyGet(job, "jobName", PyStr("NoTitle"))
            company_name == PyGet(job, "custName", PyStr("NoCompany"))
            job_link == PyGet2(job, "link", "job", PyStr(""))
        IN  IF job_name.raised \/ company_name.raised \/ job_link.raised
            THEN Abort("malformed") /\ UNCHANGED <<response, trace, prev_complete>>
            ELSE LET details == get_job_details(job_link.v, o)
                     job_result == JobResult(job_name.v, company_name.v, job_link.v)
                 IN  /\ trace' = IF details.sent
                                 THEN Append(trace, DetailEvent(current_page, o))
                                 ELSE trace
                     /\ IF details.raised
                        THEN Abort("malformed") /\ UNCHANGED <<response, prev_complete>>
                        ELSE /\ final_result' =
                                  Accumulate(final_result, WithDetails(job_result, details))
                             /\ job_idx' = job_idx + 1
                             /\ IF job_idx = Len(jobs_in_page) THEN EndOfPage
                                ELSE pc' = "listing" /\ UNCHANGED current_page
                             /\ UNCHANGED <<end_page, jobs_in_page, aborted,
                                            response, prev_complete>>
    /\ UNCHANGED <<docVars, matchVars, proxyVars>>

\* time.sleep(1)
InterPageSleep ==
    /\ pc = "sleep"
    /\ trace' = Append(trace, SleepEvent(current_page))
    /\ NextPage
    /\ UNCHANGED <<end_page, jobs_in_page, job_idx, final_result, aborted,
                   response, prev_complete>>
    /\ UNCHANGED <<docVars, matchVars, proxyVars>>

\* return final_result; process_search_104_query answers {"results": results}
ReturnResults ==
    /\ pc = "return"
    /\ response' = [results |-> final_result]
    /\ pc' = "done"
    /\ UNCHANGED <<end_page, current_page, jobs_in_page, job_idx, final_result,
                   aborted, trace, prev_complete>>
    /\ UNCHANGED <<docVars, matchVars, proxyVars>>

\* the response is sent; the process serves its next /search_104 request
NextRequest ==
    /\ pc = "done"
    /\ prev_complete' = IF aborted = "none" THEN <<response>> ELSE prev_complete
    /\ pc' = "idle"
    /\ end_page' = 1
    /\ current_page' = 1
    /\ jobs_in_page' = <<>>
    /\ job_idx' = 1
    /\ final_result' = <<>>
    /\ aborted' = "none"
    /\ response' = NoResponse
    /\ trace' = <<>>
    /\ UNCHANGED <<docVars, matchVars, proxyVars>>

SearchInit ==
    /\ pc = "idle"
    /\ end_page = 1
    /\ current_page = 1
    /\ jobs_in_page = <<>>
    /\ job_idx = 1
    /\ final_result = <<>>
    /\ aborted = "none"
    /\ response = NoResponse
    /\ trace = <<>>
    /\ prev_complete = <<>>

(***************************************************************************)
(* simple_document_search: texts are sequences of characters               *)
(***************************************************************************)
ContextChars == 150
NotFoundChars == 300

\* str.lower() on the characters of the model; the dotted capital I (U+0130)
\* lowers to two characters, i and a combining dot
LowerChar(c) ==
    CASE c = "A" -> <<"a">>
      [] c = "B" -> <<"b">>
      [] c = "I_dot" -> <<"i", "dot_above">>
      [] OTHER -> <<c>>

RECURSIVE Lower(_)
Lower(text) ==
    IF text = <<>> THEN <<>>
    ELSE IF Len(text) = 1 THEN LowerChar(text[1])
    ELSE LET half == Len(text) \div 2
         IN  Lower(SubSeq(text, 1, half)) \o Lower(SubSeq(text, half + 1, Len(text)))

Max(a, b) == IF a >= b THEN a ELSE b
Min(a, b) == IF a <= b THEN a ELSE b

Occurrences(text, sub) ==
    {i \in 0 .. (Len(text) - Len(sub)) : SubSeq(text, i + 1, i + Len(sub)) = sub}

\* sub in text
Contains(text, sub) == Occurrences(text, sub) # {}

\* text.find(sub), for a sub that occurs in text
Find(text, sub) == CHOOSE i \in Occurrences(text, sub) : \A k \in Occurrences(text, sub) : i <= k

\* text[a:b] for 0 <= a and 0 <= b
Slice(text, a, b) == SubSeq(text, a + 1, Min(b, Len(text)))

Ellipsis == <<".", ".", ".">>

\* lines 152-180: the match and its context
KeywordMatch(query, content) ==
    LET found == Contains(Lower(content), Lower(query))
    IN  IF found
        THEN LET query_pos == Find(Lower(content), Lower(query))
                 start_pos == Max(0, query_pos - ContextChars)
                 end_pos == Min(Len(content), query_pos + Len(query) + ContextChars)
                 context == Slice(content, start_pos, end_pos)
             IN  [kind |-> "match", query |-> query, found |-> TRUE,
                  context |-> (IF start_pos > 0 THEN Ellipsis ELSE <<>>) \o context
                              \o (IF end_pos < Len(content) THEN Ellipsis ELSE <<>>),
                  detail |-> "found"]
        ELSE [kind |-> "match", query |-> query, found |-> FALSE,
              context |-> IF Len(content) > NotFoundChars
                          THEN Slice(content, 0, NotFoundChars) \o Ellipsis
                          ELSE content,
              detail |-> "not found"]

\* lines 134-150: the bytes of the file as text. The bytes of the model are
\* ASCII letters and 255, which no UTF-8 text holds: a file with a 255 is
\* read as latin-1, which maps every byte to one character.
Utf8Decodable(bytes) == \A i \in 1 .. Len(bytes) : bytes[i] < 128

AsciiChar(b) ==
    CASE b = 65 -> "A"
      [] b = 66 -> "B"
      [] b = 97 -> "a"
      [] b = 98 -> "b"
      [] OTHER -> "x"

Latin1Char(b) == IF b = 255 THEN "y_diaeresis" ELSE AsciiChar(b)

DecodeFile(bytes) ==
    IF Utf8Decodable(bytes)
    THEN [i \in 1 .. Len(bytes) |-> AsciiChar(bytes[i])]
    ELSE [i \in 1 .. Len(bytes) |-> Latin1Char(bytes[i])]

\* the error payloads
SearchError(detail) ==
    [kind |-> "search_error", query |-> <<>>, found |-> FALSE, context |-> <<>>,
     detail |-> detail]
HandlerError(detail) ==
    [kind |-> "handler_error", query |-> <<>>, found |-> FALSE, context |-> <<>>,
     detail |-> detail]

(***************************************************************************)
(* The keyword matcher applied to one text                                 *)
(***************************************************************************)
Fill(c, n) == [i \in 1 .. n |-> c]

MatchQueries == {<<"a", "b">>, <<"A", "b">>, <<"b">>, <<"b", "B">>, <<>>}
MatchHeads == {<<>>, <<"A", "B">>, <<"a", "b">>, <<"I_dot", "I_dot">>, <<"x", "b">>}
MatchTails == {<<>>, <<"a", "b">>, <<"A", "b">>, <<"b", "B", "x">>}
MatchGaps == {0, 1, ContextChars - 1, ContextChars, ContextChars + 1, NotFoundChars}

MatcherInit ==
    /\ m_query \in MatchQueries
    /\ \E h \in MatchHeads, t \in MatchTails, n \in MatchGaps, c \in {"x", "I_dot"} :
          m_content = h \o Fill(c, n) \o t
    /\ m_result = <<>>

\* simple_document_search on a file whose text is m_content
Match ==
    /\ m_result = <<>>
    /\ m_result' = <<KeywordMatch(m_query, m_content)>>
    /\ UNCHANGED <<m_query, m_content>>
    /\ UNCHANGED <<searchVars, docVars, proxyVars>>

(***************************************************************************)
(* POST /document of the integrated application: two requests in one       *)
(* process. The handler runs to its await, and from its await to its       *)
(* return, without interruption.                                           *)
(***************************************************************************)
Requests == {1, 2}
FileNames == {"a.txt", "b.txt"}
\* an upload without a file name: os.path.join gives "uploads/", a directory
NoFileName == ""
Uploads == {<<97, 98>>, <<65, 66, 98>>, <<98, 255>>}
DocQueries == {<<"a", "b">>, <<"b">>}

IdleRequest ==
    [pc |-> "idle", filename |-> NoFileName, query |-> <<>>, upload |-> <<>>,
     upload_ok |-> TRUE, handle |-> 0, created |-> FALSE, left_behind |-> FALSE,
     response |-> HandlerError("none")]

\* buffer.write on a handle at offset 0 of a file that holds old
Overlay(old, new) == new \o SubSeq(old, Len(new) + 1, Len(old))

\* lines 205-210, up to the await: the path, and open(file_path, "wb"), which
\* creates the file or truncates the one that is there
DocOpen(r) ==
    /\ doc[r].pc = "idle"
    /\ \E name \in FileNames \cup {NoFileName}, q \in DocQueries,
          u \in Uploads, ok \in BOOLEAN :
        LET req == [doc[r] EXCEPT !.filename = name, !.query = q,
                                  !.upload = u, !.upload_ok = ok]
        IN  IF name = NoFileName
            THEN /\ doc' = [doc EXCEPT ![r] =
                        [req EXCEPT !.pc = "done",
                                    !.response = HandlerError("IsADirectoryError")]]
                 /\ UNCHANGED <<fs, inode_data, next_inode>>
            ELSE IF fs[name] = 0
            THEN /\ fs' = [fs EXCEPT ![name] = next_inode]
                 /\ inode_data' = [inode_data EXCEPT ![next_inode] = <<>>]
                 /\ next_inode' = next_inode + 1
                 /\ doc' = [doc EXCEPT ![r] =
                        [req EXCEPT !.pc = "reading", !.handle = next_inode,
                                    !.created = TRUE]]
            ELSE /\ inode_data' = [inode_data EXCEPT ![fs[name]] = <<>>]
                 /\ doc' = [doc EXCEPT ![r] =
                        [req EXCEPT !.pc = "reading", !.handle = fs[name],
                                    !.created = TRUE]]
                 /\ UNCHANGED <<fs, next_inode>>
    /\ UNCHANGED <<searchVars, matchVars, proxyVars>>

\* lines 210-222, from the await on: the write, simple_document_search,
\* the removal of the file and the return
DocFinish(r) ==
    /\ doc[r].pc = "reading"
    /\ LET d == doc[r]
           name == d.filename
       IN  IF ~d.upload_ok
           THEN \* await file.read() raises: the except clause answers
                /\ doc' = [doc EXCEPT ![r] =
                       [d EXCEPT !.pc = "done", !.response = HandlerError("read failed"),
                                 !.left_behind = fs[name] # 0]]
                /\ UNCHANGED <<fs, inode_data, next_inode>>
           ELSE LET written == [inode_data EXCEPT
                                   ![d.handle] = Overlay(inode_data[d.handle], d.upload)]
                    result == IF fs[name] = 0
                              THEN SearchError("FileNotFoundError")
                              ELSE KeywordMatch(d.query, DecodeFile(written[fs[name]]))
                IN  /\ inode_data' = written
                    /\ fs' = [fs EXCEPT ![name] = 0]
                    /\ doc' = [doc EXCEPT ![r] =
                           [d EXCEPT !.pc = "done", !.response = result,
                                     !.left_behind = FALSE]]
                    /\ UNCHANGED next_inode
    /\ UNCHANGED <<searchVars, matchVars, proxyVars>>

DocInit ==
    /\ fs = [n \in FileNames |-> 0]
    /\ inode_data = [i \in 1 .. Cardinality(Requests) |-> <<>>]
    /\ next_inode = 1
    /\ doc = [r \in Requests |-> IdleRequest]

(***************************************************************************)
(* The proxying application, main.py: each handler forwards the request to *)
(* the service at LANGSERVE_URL                                            *)
(***************************************************************************)
MaxServed == 2

\* what the forwarded request meets
Collaborator ==
    {[kind |-> "transport", status |-> 0, json |-> FALSE]}
    \cup {[kind |-> "answer", status |-> st, json |-> j] :
            st \in {200, 500}, j \in BOOLEAN}

Unhandled(e) == [kind |-> "unhandled", detail |-> e]
ErrorPayload(e) == [kind |-> "error_payload", detail |-> e]
Forwarded == [kind |-> "json", detail |-> "body"]

\* main.py lines 24-29 and 31-35: requests.post / requests.get, response.json()
ProxyForward(c) ==
    IF c.kind = "transport" THEN Unhandled("ConnectionError")
    ELSE IF ~c.json THEN Unhandled("JSONDecodeError")
    ELSE Forwarded

\* main.py lines 54-90
ProxySearchAnswer(c) ==
    IF c.kind = "transport" THEN ErrorPayload("request failed")
    ELSE IF c.status # 200 THEN ErrorPayload("status")
    ELSE IF ~c.json THEN ErrorPayload("not JSON")
    ELSE Forwarded

Served(endpoint, c, answer) ==
    Append(px_log, [endpoint |-> endpoint, met |-> c, answer |-> answer])

\* POST /document of main.py
ProxyDocument ==
    /\ Len(px_log) < MaxServed
    /\ \E c \in Collaborator : px_log' = Served("/document", c, ProxyForward(c))
    /\ UNCHANGED <<searchVars, docVars, matchVars>>

\* GET /vectorstore of main.py
ProxyVectorstore ==
    /\ Len(px_log) < MaxServed
    /\ \E c \in Collaborator : px_log' = Served("/vectorstore", c, ProxyForward(c))
    /\ UNCHANGED <<searchVars, docVars, matchVars>>

\* GET /search_104 of main.py
ProxySearch104 ==
    /\ Len(px_log) < MaxServed
    /\ \E c \in Collaborator : px_log' = Served("/search_104", c, ProxySearchAnswer(c))
    /\ UNCHANGED <<searchVars, docVars, matchVars>>

(***************************************************************************)
(* The specifications                                                      *)
(***************************************************************************)
MatcherIdle == m_query = <<>> /\ m_content = <<>> /\ m_result = <<>>

Init == SearchInit /\ DocInit /\ MatcherIdle /\ px_log = <<>>

Next ==
    \/ StartSearch
    \/ SearchPageRequest
    \/ ProcessListing
    \/ InterPageSleep
    \/ ReturnResults

Spec == Init /\ [][Next]_vars

\* successive requests with the default end_page
NextDefault ==
    \/ StartDefaultSearch
    \/ SearchPageRequest
    \/ ProcessListing
    \/ ReturnResults
    \/ NextRequest

SpecDefault == Init /\ [][NextDefault]_vars

\* the /document requests
NextDocument == \E r \in Requests : DocOpen(r) \/ DocFinish(r)

SpecDocument == Init /\ [][NextDocument]_vars

\* the matcher on one text
InitMatcher == SearchInit /\ DocInit /\ MatcherInit /\ px_log = <<>>

SpecMatcher == InitMatcher /\ [][Match]_vars

\* the proxying application
NextProxy == ProxyDocument \/ ProxyVectorstore \/ ProxySearch104

SpecProxy == Init /\ [][NextProxy]_vars

(***************************************************************************)
(* What the history of one search shows                                    *)
(***************************************************************************)
IsSearchEvent(e) == e.op = "search"
IsDetailEvent(e) == e.op = "detail"
IsSleepEvent(e) == e.op = "sleep"

SearchEvents == SelectSeq(trace, IsSearchEvent)
DetailEvents == SelectSeq(trace, IsDetailEvent)
SleepEvents == SelectSeq(trace, IsSleepEvent)

\* a search-page request failed: transport error, non-2xx status or a body
\* that is not JSON
PageFailed == \E i \in 1 .. Len(SearchEvents) : ~SearchEvents[i].ok

\* the pages requested are 1, 2, 3, ... in this order
AscendingFromOne == \A i \in 1 .. Len(SearchEvents) : SearchEvents[i].page = i

WellFormedListing(j) ==
    /\ IsDict(j)
    /\ HasKey(j, "jobName") /\ j.f.jobName.t = "str"
    /\ HasKey(j, "custName") /\ j.f.custName.t = "str"
    /\ HasKey(j, "link") /\ IsDict(j.f.link)
    /\ HasKey(j.f.link, "job") /\ j.f.link.f.job.t = "str"

WellFormedPage(b) ==
    /\ IsDict(b)
    /\ HasKey(b, "data") /\ IsDict(b.f.data)
    /\ HasKey(b.f.data, "list") /\ b.f.data.f.list.t = "list"
    /\ \A i \in 1 .. Len(b.f.data.f.list.q) : WellFormedListing(b.f.data.f.list.q[i])

AllPagesWellFormed ==
    \A i \in 1 .. Len(SearchEvents) :
        SearchEvents[i].ok => WellFormedPage(PageBodies[SearchEvents[i].body])

\* the listing objects of a body: the elements of data.list when there is one
ListingsOf(b) ==
    IF IsDict(b) /\ HasKey(b, "data") /\ IsDict(b.f.data)
       /\ HasKey(b.f.data, "list") /\ b.f.data.f.list.t = "list"
    THEN b.f.data.f.list.q ELSE <<>>

Summary(j) == [title |-> j.f.jobName, company |-> j.f.custName, link |-> j.f.link.f.job]

SummariesOf(b) == [i \in 1 .. Len(ListingsOf(b)) |-> Summary(ListingsOf(b)[i])]

\* the summaries of the pages answered before the first failing page
RECURSIVE ExpectedSummaries(_)
ExpectedSummaries(events) ==
    IF events = <<>> \/ ~Head(events).ok THEN <<>>
    ELSE SummariesOf(PageBodies[Head(events).body]) \o ExpectedSummaries(Tail(events))

RECURSIVE ListingTotal(_)
ListingTotal(events) ==
    IF events = <<>> THEN 0
    ELSE (IF Head(events).ok THEN Len(ListingsOf(PageBodies[Head(events).body])) ELSE 0)
         + ListingTotal(Tail(events))

Returned(r) == [title |-> r.title, company |-> r.company, link |-> r.link]

ReturnedSummaries == [i \in 1 .. Len(response.results) |-> Returned(response.results[i])]

(***************************************************************************)
(* C1                                                                      *)
(***************************************************************************)
\* C1, as claimed: a finished search has requested pages 1, 2, ... in order,
\* never more than end_page of them: exactly end_page when no page request
\* failed and strictly fewer than end_page when one failed. Stated for the
\* searches that no malformed field abandoned, so that a violation owes
\* nothing to that defect.
C1_AsClaimed ==
    pc = "done" /\ aborted # "malformed" =>
        /\ AscendingFromOne
        /\ Len(SearchEvents) <= end_page
        /\ ~PageFailed => Len(SearchEvents) = end_page
        /\ PageFailed => Len(SearchEvents) < end_page

\* C1, amended: the pages requested are 1..k in ascending order with none
\* skipped and k <= end_page; a finished search that was not abandoned has
\* k = end_page; a failing page request is the last request, so a failure at
\* page k leaves exactly k requests issued (fewer than end_page only when
\* k < end_page).
C1_PagesRequested ==
    /\ AscendingFromOne
    /\ Len(SearchEvents) <= end_page
    /\ \A i \in 1 .. Len(SearchEvents) : ~SearchEvents[i].ok => i = Len(SearchEvents)
    /\ pc = "done" /\ aborted = "none" => Len(SearchEvents) = end_page /\ ~PageFailed
    /\ pc = "done" /\ aborted # "none" => Len(SearchEvents) = current_page

\* C1 witness: a search of at least two pages whose last page request failed,
\* after end_page requests
C1_Witness ==
    /\ pc = "done"
    /\ end_page >= 2
    /\ PageFailed
    /\ Len(SearchEvents) = end_page

(***************************************************************************)
(* C2                                                                      *)
(***************************************************************************)
\* C2: when every page answered is well formed, the sequence returned is the
\* concatenation, in page order and listing order, of one record per listing
\* of the pages answered before the first failing page, duplicates kept; it
\* is returned as the result also when a page failed.
C2_Concatenation ==
    pc = "done" /\ AllPagesWellFormed =>
        /\ ReturnedSummaries = ExpectedSummaries(SearchEvents)
        /\ response.results = final_result

\* C2 witness: a search cut short at its third page that returns the records
\* of two well-formed pages, the same listing twice among them
C2_Witness ==
    /\ pc = "done"
    /\ AllPagesWellFormed
    /\ PageFailed
    /\ Len(SearchEvents) = 3
    /\ Len(response.results) = 3
    /\ \E i, k \in 1 .. 3 : i < k /\ response.results[i].link = response.results[k].link

(***************************************************************************)
(* C3                                                                      *)
(***************************************************************************)
FailedDetailStep ==
    /\ Len(trace') = Len(trace) + 1
    /\ trace'[Len(trace')].op = "detail"
    /\ ~trace'[Len(trace')].ok

DetailCount(tr) == Len(SelectSeq(tr, IsDetailEvent))

\* C3: a step whose detail fetch fails appends the listing's record, at the
\* listing's position and with an empty description, and the search goes on
\* with the next listing, the sleep or the next page; it ends only after the
\* last listing of the last page.
C3_DetailFailureKept ==
    [][FailedDetailStep =>
        /\ Len(final_result') = Len(final_result) + 1
        /\ Len(final_result') = DetailCount(trace')
        /\ SubSeq(final_result', 1, Len(final_result)) = final_result
        /\ final_result'[Len(final_result')].description = PyStr("")
        /\ aborted' = "none"
        /\ \/ pc' = "listing" /\ job_idx' <= Len(jobs_in_page)
           \/ pc' = "sleep" /\ current_page < end_page
           \/ pc' = "return" /\ job_idx = Len(jobs_in_page) /\ current_page = end_page
      ]_vars

\* C3 witness: a finished search in which a detail fetch of page 1 failed,
\* its record is in the result with an empty description, and page 2 was
\* requested afterwards
C3_Witness ==
    /\ pc = "done"
    /\ Len(DetailEvents) >= 1
    /\ ~DetailEvents[1].ok /\ DetailEvents[1].page = 1
    /\ Len(response.results) >= 2
    /\ response.results[1].description = PyStr("")
    /\ Len(SearchEvents) >= 2 /\ SearchEvents[2].ok

(***************************************************************************)
(* C4                                                                      *)
(***************************************************************************)
SleepsAfter(p) == {i \in 1 .. Len(trace) : trace[i] = SleepEvent(p)}

\* the sleep of page p comes after every request of page p and right before
\* the search request of page p + 1
WellPlaced(i, p) ==
    /\ \A k \in 1 .. Len(trace) : trace[k].page = p /\ trace[k].op # "sleep" => k < i
    /\ i < Len(trace)
    /\ trace[i + 1].op = "search" /\ trace[i + 1].page = p + 1

DelayDiscipline ==
    /\ Len(SleepEvents) = end_page - 1
    /\ \A p \in 1 .. end_page - 1 :
        /\ Cardinality(SleepsAfter(p)) = 1
        /\ \A i \in SleepsAfter(p) : WellPlaced(i, p)

\* C4, as claimed: a finished search in which every search-page request
\* succeeded slept exactly once after each page but the last, between the
\* last detail fetch of the page and the request of the next page:
\* end_page - 1 sleeps.
C4_AsClaimed == pc = "done" /\ ~PageFailed => DelayDiscipline

\* the same for the searches that were not abandoned
C4_WhenNotAbandoned == pc = "done" /\ aborted = "none" => DelayDiscipline

(***************************************************************************)
(* C5                                                                      *)
(***************************************************************************)
\* C5, as claimed: the answer of a search cut short by a page failure differs
\* from the answer of a failure-free search that collected the same records.
C5_AsClaimed ==
    pc = "done" /\ PageFailed /\ prev_complete # <<>> => response # prev_complete[1]

(***************************************************************************)
(* C6                                                                      *)
(***************************************************************************)
IsText(v) == v.t = "str"

\* C6, as claimed: no absent, null or misshapen field abandons the search;
\* every field of every record is a text, defaulted where the body lacks it;
\* and unless a page request failed, all end_page pages are requested and
\* every listing object of every page has its record.
C6_AsClaimed ==
    /\ aborted # "malformed"
    /\ \A i \in 1 .. Len(final_result) :
        /\ IsText(final_result[i].title) /\ IsText(final_result[i].company)
        /\ IsText(final_result[i].link) /\ IsText(final_result[i].description)
    /\ pc = "done" /\ ~PageFailed =>
        /\ Len(SearchEvents) = end_page
        /\ Len(final_result) = ListingTotal(SearchEvents)

(***************************************************************************)
(* C7                                                                      *)
(***************************************************************************)
\* C7, as claimed: whatever the collaborator does, no endpoint lets the
\* failure through: every answer is the forwarded result or an error payload.
C7_AsClaimed ==
    \A i \in 1 .. Len(px_log) : px_log[i].answer.kind # "unhandled"

(***************************************************************************)
(* C8                                                                      *)
(***************************************************************************)
\* C8, as claimed: a /document handler that created its file returns with
\* the file removed, on every path.
C8_AsClaimed ==
    \A r \in Requests : doc[r].pc = "done" /\ doc[r].created => ~doc[r].left_behind

(***************************************************************************)
(* C9                                                                      *)
(***************************************************************************)
\* the answer of the request when no other request is served
AloneResponse(r) ==
    IF doc[r].filename = NoFileName THEN HandlerError("IsADirectoryError")
    ELSE IF ~doc[r].upload_ok THEN HandlerError("read failed")
    ELSE KeywordMatch(doc[r].query, DecodeFile(doc[r].upload))

\* C9, as claimed: however two /document requests interleave, each answers
\* what it would answer alone.
C9_AsClaimed ==
    \A r \in Requests : doc[r].pc = "done" => doc[r].response = AloneResponse(r)

(***************************************************************************)
(* C10                                                                     *)
(***************************************************************************)
\* C10, as claimed: when the text contains the query literally, the match is
\* found and the context returned contains the query literally.
C10_AsClaimed ==
    m_result # <<>> /\ Contains(m_content, m_query) =>
        m_result[1].found /\ Contains(m_result[1].context, m_query)

====
